---- MODULE Spec2Model ----
(***************************************************************************)
(* Model of ntvmb/soundthememaker: the KDialog progress-bar session        *)
(* (py_kdialog.ProgressBar) and the sound-theme editor state machine       *)
(* (soundthememaker.py).                                                   *)
(*                                                                         *)
(* Three specifications share the variables:                               *)
(*   PBSpec  - one ProgressBar object driven by arbitrary calls, with the  *)
(*             external indicator being dismissed asynchronously;          *)
(*   EdSpec  - the editor's menu loop over the global the_theme and the    *)
(*             file system;                                                *)
(*   DlgSpec - the dialog functions of py_kdialog, each called with        *)
(*             arbitrary arguments while the kdialog process ends with an  *)
(*             arbitrary exit status and output.                           *)
(* The session and the editor never interact (the editor opens no         *)
(* progress bar), so each is explored on its own with the other at rest.   *)
(* EdSpec draws the answer of each dialog the editor shows directly; the   *)
(* title the editor sets before its dialogs influences no answer and is    *)
(* followed in DlgSpec only.                                               *)
(***************************************************************************)
EXTENDS Integers, Sequences, FiniteSets, TLC

VARIABLES
    \* ---- py_kdialog.ProgressBar ----
    progress,      \* self.__progress
    closed,        \* self.__closed
    itercount,     \* self.__itercount
    auto_close,    \* self.__auto_close
    alive,         \* the external indicator still answers on the control bus
    bus,           \* control-bus calls issued so far (after construction)
    pb_last,       \* the last ProgressBar call and what the caller observed
    \* ---- soundthememaker ----
    the_theme,     \* global the_theme (NoTheme before the first assignment)
    pc,            \* where the editor is: main_menu, edit_theme, add_sound, ...
    json_files,    \* path -> JSON document stored there (NoDoc when absent)
    sound_files,   \* the sound files that exist on disk
    dirs,          \* directory path -> files in it (relative name -> content)
    tmp,           \* staging directories present under /tmp: name -> tree
    written,       \* path -> the name, comment and sounds save_theme dumped there
    ed_last,       \* the last editor handler and what it did
    steps,         \* changes to the theme or the file system so far
    \* ---- py_kdialog dialog functions ----
    title,         \* py_kdialog.title
    dlg_last       \* the last dialog call: its inputs, the processes it ran
                   \* and what the caller got

pbvars == <<progress, closed, itercount, auto_close, alive, bus, pb_last>>
edvars == <<the_theme, pc, json_files, sound_files, dirs, tmp, written, ed_last, steps>>
dlgvars == <<title, dlg_last>>
vars == <<progress, closed, itercount, auto_close, alive, bus, pb_last,
          the_theme, pc, json_files, sound_files, dirs, tmp, written, ed_last, steps,
          title, dlg_last>>

(***************************************************************************)
(* Bounds                                                                  *)
(***************************************************************************)
MaxIter == 2        \* largest itercount a session is created with
MaxCalls == 4       \* control-bus calls followed per session
MaxSteps == 3       \* changes to the theme or the file system followed per run
MaxStatus == 3      \* largest exit status a dialog process ends with
MaxItems == 4       \* longest flat item sequence handed to a list dialog

(***************************************************************************)
(* py_kdialog.ProgressBar                                                  *)
(***************************************************************************)
RANGE_MSG == "progress must be at least 0 and at most itercount"
CLOSED_MSG == "Attempted to update a closed progress bar"

\* What a call hands back to its caller.
Returned == [exc |-> "none", msg |-> ""]
ValueError(m) == [exc |-> "ValueError", msg |-> m]
CancelledError == [exc |-> "CancelledError", msg |-> "Progress bar was cancelled."]

SetCall(v) == [cmd |-> "Set", value |-> v]
CloseCall == [cmd |-> "close", value |-> 0]

\* progress.setter: if value < 0 or value > self.__itercount: raise ValueError
OutOfRange_NoUpper(value, count) == value < 0
OutOfRange(value, count) == value < 0 \/ value > count

\* A session state is [progress, closed, alive, bus]; the methods below are
\* functions from a session state to [s |-> session state, r |-> outcome].
Session == [progress |-> progress, closed |-> closed, alive |-> alive, bus |-> bus]

\* close(): self.__closed = True; subprocess.run([qdbus] + ref + ["close"])
DoClose(s) ==
    [s EXCEPT !.closed = TRUE, !.alive = FALSE, !.bus = Append(@, CloseCall)]

\* update(), without the closed guard
DoUpdate_NoGuard(s) ==
    IF s.alive
    THEN [s |-> [s EXCEPT !.bus = Append(@, SetCall(s.progress))], r |-> Returned]
    ELSE [s |-> DoClose([s EXCEPT !.bus = Append(@, SetCall(s.progress))]),
          r |-> CancelledError]

\* update(), whose except clause raises without calling close()
DoUpdate_NoCloseOnFail(s) ==
    IF s.closed
    THEN [s |-> s, r |-> ValueError(CLOSED_MSG)]
    ELSE IF s.alive
    THEN [s |-> [s EXCEPT !.bus = Append(@, SetCall(s.progress))], r |-> Returned]
    ELSE [s |-> [s EXCEPT !.bus = Append(@, SetCall(s.progress))],
          r |-> CancelledError]

\* update(): raise if closed; push the value; a failed push closes the
\* session and raises CancelledError.
DoUpdate(s) ==
    IF s.closed
    THEN [s |-> s, r |-> ValueError(CLOSED_MSG)]
    ELSE IF s.alive
    THEN [s |-> [s EXCEPT !.bus = Append(@, SetCall(s.progress))], r |-> Returned]
    ELSE [s |-> DoClose([s EXCEPT !.bus = Append(@, SetCall(s.progress))]),
          r |-> CancelledError]

\* progress.setter
DoSet(s, value) ==
    IF OutOfRange(value, itercount)
    THEN [s |-> s, r |-> ValueError(RANGE_MSG)]
    ELSE DoUpdate([s EXCEPT !.progress = value])

\* increment(), that closes at itercount whatever auto_close says
DoIncrement_CloseIgnoresFlag(s) ==
    IF s.closed
    THEN [s |-> s, r |-> ValueError(CLOSED_MSG)]
    ELSE LET u == DoUpdate([s EXCEPT !.progress = @ + 1])
         IN  IF u.r.exc # "none" THEN u
             ELSE IF u.s.progress >= itercount
             THEN [s |-> DoClose(u.s), r |-> Returned]
             ELSE u

\* increment()
DoIncrement(s) ==
    IF s.closed
    THEN [s |-> s, r |-> ValueError(CLOSED_MSG)]
    ELSE LET u == DoUpdate([s EXCEPT !.progress = @ + 1])
         IN  IF u.r.exc # "none" THEN u
             ELSE IF u.s.progress >= itercount /\ auto_close
             THEN [s |-> DoClose(u.s), r |-> Returned]
             ELSE u

\* __exit__(): if not self.__closed: self.close()
DoExit(s) == IF ~s.closed THEN DoClose(s) ELSE s

\* Install the outcome of a call as the next state.
Commit(op, arg, out) ==
    /\ Len(out.s.bus) <= MaxCalls
    /\ progress' = out.s.progress
    /\ closed' = out.s.closed
    /\ alive' = out.s.alive
    /\ bus' = out.s.bus
    /\ pb_last' = [op |-> op, arg |-> arg, r |-> out.r, was_closed |-> closed,
                   before |-> progress, calls |-> SubSeq(out.s.bus, Len(bus) + 1, Len(out.s.bus))]
    /\ UNCHANGED <<itercount, auto_close>>

SetValues == -1 .. (MaxIter + 1)

PBSet == \E v \in SetValues : Commit("set", v, DoSet(Session, v))
PBIncrement == Commit("increment", 0, DoIncrement(Session))
PBUpdate == Commit("update", 0, DoUpdate(Session))
PBClose == Commit("close", 0, [s |-> DoClose(Session), r |-> Returned])
PBExit == Commit("exit", 0, [s |-> DoExit(Session), r |-> Returned])

\* The user dismisses the indicator; nothing in the object changes until
\* the next push.
PBDismiss ==
    /\ alive
    /\ alive' = FALSE
    /\ UNCHANGED <<progress, closed, itercount, auto_close, bus, pb_last>>

PBInit ==
    /\ itercount \in 0 .. MaxIter
    /\ auto_close \in BOOLEAN
    /\ progress = 0
    /\ closed = FALSE
    /\ alive = TRUE
    /\ bus = <<>>
    /\ pb_last = [op |-> "init", arg |-> 0, r |-> Returned, was_closed |-> FALSE,
                  before |-> 0, calls |-> <<>>]

(***************************************************************************)
(* soundthememaker: values                                                 *)
(***************************************************************************)
None == "<None>"                       \* Python None where a str may stand
HOME == "/home/u"                      \* home = Path(os.environ["HOME"])
TMP_DIR == "/tmp"                      \* tmp_dir
UNSET_SOUND == "Unset sound... "
IMPORT_SOUND == "Import sound... "
DEFAULT_NAME == "Sound theme"
DEFAULT_COMMENT == "This is a sound theme!"

\* py_kdialog outcome codes
OK == 0
CANCEL == 1
YES == 2
NO == 3
NoRet == -1                            \* the handler returned None

\* The part of the 78-entry catalog of Theme.__init__ the model follows, in
\* the dict's insertion order.
CatalogOrder == <<"bell", "message">>
Catalog == {CatalogOrder[i] : i \in 1 .. Len(CatalogOrder)}

\* Theme.__init__
NewTheme ==
    [name |-> DEFAULT_NAME, comment |-> DEFAULT_COMMENT,
     sounds |-> [k \in Catalog |-> None],
     imported_sounds |-> <<>>, path |-> None, modified |-> FALSE]

NoTheme == [undefined |-> TRUE]        \* the global before its first binding

(***************************************************************************)
(* Strings and paths                                                       *)
(***************************************************************************)
Digits == {"0", "1", "2", "3", "4", "5", "6", "7", "8", "9"}
LowerLetters == {"a", "b", "c", "d", "e", "f", "g", "h", "i", "j", "k", "l", "m",
                 "n", "o", "p", "q", "r", "s", "t", "u", "v", "w", "x", "y", "z"}
UpperToLower ==
    [c \in {"A", "B", "C", "D", "E", "F", "G", "H", "I", "J", "K", "L", "M",
            "N", "O", "P", "Q", "R", "S", "T", "U", "V", "W", "X", "Y", "Z"} |->
        CASE c = "A" -> "a" [] c = "B" -> "b" [] c = "C" -> "c" [] c = "D" -> "d"
          [] c = "E" -> "e" [] c = "F" -> "f" [] c = "G" -> "g" [] c = "H" -> "h"
          [] c = "I" -> "i" [] c = "J" -> "j" [] c = "K" -> "k" [] c = "L" -> "l"
          [] c = "M" -> "m" [] c = "N" -> "n" [] c = "O" -> "o" [] c = "P" -> "p"
          [] c = "Q" -> "q" [] c = "R" -> "r" [] c = "S" -> "s" [] c = "T" -> "t"
          [] c = "U" -> "u" [] c = "V" -> "v" [] c = "W" -> "w" [] c = "X" -> "x"
          [] c = "Y" -> "y" [] c = "Z" -> "z"]

CharAt(s, i) == SubSeq(s, i, i)

\* str.isalnum() of one character
IsAlnum(c) == c \in Digits \/ c \in LowerLetters \/ c \in DOMAIN UpperToLower

\* str.lower() of one character
LowerChar(c) == IF c \in DOMAIN UpperToLower THEN UpperToLower[c] ELSE c

\* "".join(e for e in name if e.isalnum()).lower()
RECURSIVE JoinAlnumLower(_, _)
JoinAlnumLower(s, i) ==
    IF i > Len(s) THEN ""
    ELSE (IF IsAlnum(CharAt(s, i)) THEN LowerChar(CharAt(s, i)) ELSE "")
             \o JoinAlnumLower(s, i + 1)

InstallComponent(name) == JoinAlnumLower(name, 1)

\* pathlib: p / c  (an empty segment adds nothing)
PathJoin(p, c) == IF c = "" THEN p ELSE p \o "/" \o c

\* str.rfind(ch): index of the last occurrence, 0 when there is none
RECURSIVE RFind(_, _, _)
RFind(s, ch, i) ==
    IF i = 0 THEN 0
    ELSE IF CharAt(s, i) = ch THEN i ELSE RFind(s, ch, i - 1)

\* pathlib: Path(p).name
BaseName(p) == SubSeq(p, RFind(p, "/", Len(p)) + 1, Len(p))

\* pathlib: Path(p).suffix, dropping the dot
Suffix_NoDot(p) ==
    LET n == BaseName(p)
        i == RFind(n, ".", Len(n))
    IN  IF 1 < i /\ i < Len(n) THEN SubSeq(n, i + 1, Len(n)) ELSE ""

\* pathlib: Path(p).suffix
Suffix(p) ==
    LET n == BaseName(p)
        i == RFind(n, ".", Len(n))
    IN  IF 1 < i /\ i < Len(n) THEN SubSeq(n, i, Len(n)) ELSE ""

\* home / ".local" / "share" / "sounds"
SoundsDir == PathJoin(PathJoin(PathJoin(HOME, ".local"), "share"), "sounds")

(***************************************************************************)
(* JSON documents and the file system                                      *)
(***************************************************************************)
\* JSON values: null, a string, an object (members in document order), an
\* array, or no value at all (key absent).
JNull == [t |-> "null", s |-> "", items |-> <<>>]
JStr(s) == [t |-> "string", s |-> s, items |-> <<>>]
JObj(items) == [t |-> "object", s |-> "", items |-> items]
JArr == [t |-> "array", s |-> "", items |-> <<>>]
JAbsent == [t |-> "absent", s |-> "", items |-> <<>>]

\* A theme document: the top-level value's type and its three members.
Doc(n, c, snd) == [top |-> "object", name |-> n, comment |-> c, sounds |-> snd]
NotObjectDoc == [top |-> "array", name |-> JAbsent, comment |-> JAbsent, sounds |-> JAbsent]

\* json.dump of a str-or-None value
ToJson(v) == IF v = None THEN JNull ELSE JStr(v)

\* json.load of a null-or-string value
FromJson(j) == IF j.t = "null" THEN None ELSE j.s

\* save_theme's data with the name written under "comment" as well
ThemeData_NameAsComment(t) ==
    Doc(JStr(t.name), JStr(t.name),
        JObj([i \in 1 .. Len(CatalogOrder) |->
                 <<CatalogOrder[i], ToJson(t.sounds[CatalogOrder[i]])>>]))

\* save_theme: data = {"name": ..., "comment": ..., "sounds": the_theme.sounds}
\* as json.dump writes it.
ThemeData(t) ==
    Doc(JStr(t.name), JStr(t.comment),
        JObj([i \in 1 .. Len(CatalogOrder) |->
                 <<CatalogOrder[i], ToJson(t.sounds[CatalogOrder[i]])>>]))

SOUND_A == "/tmp/a.wav"
SOUND_B == "/tmp/b.ogg"
SOUND_GONE == "/tmp/gone.flac"         \* named by a document, never on disk

\* bytes of the sound files
SoundData(p) == "bytes of " \o p

GOOD_JSON == "/home/u/good.json"
UNKNOWN_KEY_JSON == "/home/u/unknownkey.json"
MISSING_SOUND_JSON == "/home/u/missingsound.json"
NOT_OBJECT_JSON == "/home/u/array.json"
NO_NAME_JSON == "/home/u/noname.json"
NO_COMMENT_JSON == "/home/u/nocomment.json"
NO_SOUNDS_JSON == "/home/u/nosounds.json"
NEW_JSON == "/home/u/new.json"         \* a destination not yet on disk
EXPORT_DIR == "/home/u/D"

\* Files on disk before the editor starts.
InitialJsonFiles ==
    (GOOD_JSON :> Doc(JStr("Test"), JStr("c"),
                      JObj(<< <<"bell", JStr(SOUND_A)>>, <<"message", JStr(SOUND_B)>> >>)))
 @@ (UNKNOWN_KEY_JSON :> Doc(JStr("Odd"), JStr("c"),
                      JObj(<< <<"bell", JStr(SOUND_A)>>, <<"bogus", JNull>> >>)))
 @@ (MISSING_SOUND_JSON :> Doc(JStr("Lost"), JStr("c"),
                      JObj(<< <<"message", JStr(SOUND_GONE)>> >>)))
 @@ (NOT_OBJECT_JSON :> NotObjectDoc)
 @@ (NO_NAME_JSON :> Doc(JAbsent, JStr("c"), JObj(<<>>)))
 @@ (NO_COMMENT_JSON :> Doc(JStr("Half"), JAbsent, JObj(<<>>)))
 @@ (NO_SOUNDS_JSON :> Doc(JStr("Mute"), JStr("c"), JNull))

\* open(filename, "w") succeeds: the target is not a directory
Writable(filename) == filename # HOME /\ filename \notin DOMAIN dirs

\* index.theme as configparser writes it (optionxform = str, no spaces
\* around the delimiter): [Sound Theme] Name, Comment, Directories, Example
\* and [stereo] OutputProfile.
IndexTheme(t) ==
    [kind |-> "index", Name |-> t.name, Comment |-> t.comment,
     Directories |-> "stereo", Example |-> "theme-demo", OutputProfile |-> "stereo"]

\* a copied sound file
SoundFile(p) == [kind |-> "sound", data |-> SoundData(p)]

EmptyTree == <<>>

\* shutil.copytree(src, dst, dirs_exist_ok=True): files of src replace or
\* join those of dst.
MergeTree(src, dst) == src @@ dst

(***************************************************************************)
(* soundthememaker: handlers                                               *)
(* A world is [theme, json_files, dirs, tmp, written] plus what the        *)
(* handler did: exc (the exception leaving it, "none" when it returns),    *)
(* ret, saved, saved_to, dest, staged, shown, caught, leave, ans.          *)
(***************************************************************************)
World ==
    [theme |-> the_theme, json_files |-> json_files, dirs |-> dirs, tmp |-> tmp,
     written |-> written,
     exc |-> "none", ret |-> NoRet, saved |-> "none", saved_to |-> None, dest |-> None,
     staged |-> EmptyTree, shown |-> <<>>, caught |-> "none", main_caught |-> "none",
     leave |-> FALSE, ans |-> NoRet]

Raise(w, e) == [w EXCEPT !.exc = e]
Show(w, d) == [w EXCEPT !.shown = Append(@, d)]

\* d[k] = v on a Python dict: an absent key is added
DictSet(d, k, v) == (k :> v) @@ d

\* set_title(), that leaves modified as it is
SetTitle_KeepsModified(w, tmp_name) ==
    LET w1 == Show(w, "inputbox")
    IN  IF tmp_name # None
        THEN [w1 EXCEPT !.theme.name = tmp_name]
        ELSE w1

\* set_title(); tmp_name is the inputbox answer (None when cancelled)
SetTitle(w, tmp_name) ==
    LET w1 == Show(w, "inputbox")
    IN  IF tmp_name # None
        THEN [w1 EXCEPT !.theme.name = tmp_name, !.theme.modified = TRUE]
        ELSE w1

\* set_comment()
SetComment(w, tmp_comment) ==
    LET w1 == Show(w, "inputbox")
    IN  IF tmp_comment # None
        THEN [w1 EXCEPT !.theme.comment = tmp_comment, !.theme.modified = TRUE]
        ELSE w1

\* edit_sound(sound); combo is the combobox answer (an item, or None when
\* cancelled), picked the getopenfilename answer (a path, or None).
EditSound(w, sound, combo, picked) ==
    LET items == w.theme.imported_sounds \o <<UNSET_SOUND, IMPORT_SOUND>>
        w1 == IF Len(items) > 2 THEN Show(w, "combobox") ELSE w
        the_sound == IF Len(items) > 2 THEN combo ELSE IMPORT_SOUND
    IN  IF the_sound = IMPORT_SOUND
        THEN LET w2 == [Show(w1, "getopenfilename") EXCEPT
                           !.theme.imported_sounds = Append(@, picked)]
             IN  IF picked = None
                 THEN Raise(w2, "TypeError")      \* pathlib.Path(None)
                 ELSE [w2 EXCEPT !.theme.sounds = DictSet(@, sound, picked),
                                 !.theme.modified = TRUE]
        ELSE IF the_sound # None
        THEN [w1 EXCEPT !.theme.sounds =
                            DictSet(@, sound,
                                    IF the_sound # UNSET_SOUND THEN the_sound ELSE None),
                        !.theme.modified = TRUE]
        ELSE w1

\* What save_theme puts into data: the Theme's name, comment and sounds.
Snapshot(t) == [name |-> t.name, comment |-> t.comment, sounds |-> t.sounds]

\* save_theme(force_dialog), that clears modified without binding the path
SaveTheme_NoBind(w, force_dialog, answer) ==
    LET ask == w.theme.path = None \/ force_dialog
        w1 == IF ask THEN Show(w, "getsavefilename") ELSE w
        filename == IF ask THEN answer ELSE w.theme.path
    IN  IF ask /\ answer = None
        THEN [w1 EXCEPT !.ret = CANCEL, !.saved = "cancelled"]
        ELSE IF ~Writable(filename)
        THEN [Raise(w1, "OSError") EXCEPT !.saved = "failed"]
        ELSE [w1 EXCEPT !.json_files = (filename :> ThemeData(w.theme)) @@ @,
                        !.written = (filename :> Snapshot(w.theme)) @@ @,
                        !.theme.modified = FALSE,
                        !.ret = OK, !.saved = "ok", !.saved_to = filename]

\* save_theme(force_dialog), that asks for a destination every time
SaveTheme_AlwaysAsk(w, force_dialog, answer) ==
    LET w1 == Show(w, "getsavefilename")
        filename == answer
    IN  IF answer = None
        THEN [w1 EXCEPT !.ret = CANCEL, !.saved = "cancelled"]
        ELSE IF ~Writable(filename)
        THEN [Raise(w1, "OSError") EXCEPT !.saved = "failed"]
        ELSE [w1 EXCEPT !.json_files = (filename :> ThemeData(w.theme)) @@ @,
                        !.written = (filename :> Snapshot(w.theme)) @@ @,
                        !.theme.modified = FALSE,
                        !.theme.path = filename,
                        !.ret = OK, !.saved = "ok", !.saved_to = filename]

\* save_theme(force_dialog); answer is the getsavefilename answer
SaveTheme(w, force_dialog, answer) ==
    LET ask == w.theme.path = None \/ force_dialog
        w1 == IF ask THEN Show(w, "getsavefilename") ELSE w
        filename == IF ask THEN answer ELSE w.theme.path
    IN  IF ask /\ answer = None
        THEN [w1 EXCEPT !.ret = CANCEL, !.saved = "cancelled"]
        ELSE IF ~Writable(filename)
        THEN [Raise(w1, "OSError") EXCEPT !.saved = "failed"]
        ELSE [w1 EXCEPT !.json_files = (filename :> ThemeData(w.theme)) @@ @,
                        !.written = (filename :> Snapshot(w.theme)) @@ @,
                        !.theme.modified = FALSE,
                        !.theme.path = filename,
                        !.ret = OK, !.saved = "ok", !.saved_to = filename]

\* The staging loop of export_theme: copy the bound sounds in dict order
\* into stereo/; stops at the first source that is missing.
RECURSIVE StageSounds(_, _, _)
StageSounds(t, tree, i) ==
    IF i > Len(CatalogOrder) THEN [tree |-> tree, exc |-> "none"]
    ELSE LET sound_name == CatalogOrder[i]
             sound_path == t.sounds[sound_name]
         IN  IF sound_path = None THEN StageSounds(t, tree, i + 1)
             ELSE IF sound_path \notin sound_files
             THEN [tree |-> tree, exc |-> "FileNotFoundError"]
             ELSE StageSounds(t,
                      (("stereo/" \o sound_name \o Suffix(sound_path))
                           :> SoundFile(sound_path)) @@ tree,
                      i + 1)

\* export_theme from "if savedir is None" on: w is the world after the
\* save-first step.
ExportBody(w, savedir, quiet, dir_answer, work_name) ==
    LET w1 == IF savedir = None THEN Show(w, "getsavefilename") ELSE w
        dir == IF savedir = None THEN dir_answer ELSE savedir
    IN  IF dir = None THEN w1
        ELSE IF work_name \in DOMAIN w1.tmp
        THEN Raise(w1, "FileExistsError")          \* os.mkdir(workdir)
        ELSE LET st == StageSounds(w1.theme, "index.theme" :> IndexTheme(w1.theme), 1)
             IN  IF st.exc # "none"
                 THEN [Raise(w1, st.exc) EXCEPT !.tmp = (work_name :> st.tree) @@ @,
                                                !.staged = st.tree]
                 ELSE LET old == IF dir \in DOMAIN w1.dirs THEN w1.dirs[dir] ELSE EmptyTree
                          w2 == [w1 EXCEPT !.dirs = (dir :> MergeTree(st.tree, old)) @@ @,
                                           !.staged = st.tree, !.dest = dir,
                                           !.ret = OK]
                      IN  IF quiet THEN w2 ELSE Show(w2, "msgbox")

\* export_theme(savedir, quiet), without the "if the_theme.modified" block
ExportTheme_NoSaveCheck(w, savedir, quiet, save_answer, dir_answer, work_name) ==
    ExportBody(w, savedir, quiet, dir_answer, work_name)

\* export_theme(savedir, quiet)
ExportTheme(w, savedir, quiet, save_answer, dir_answer, work_name) ==
    IF w.theme.modified
    THEN IF ~quiet
         THEN LET w1 == SaveTheme(Show(w, "msgbox"), FALSE, save_answer)
              IN  IF w1.exc # "none" THEN w1
                  ELSE IF w1.ret = CANCEL THEN w1
                  ELSE ExportBody([w1 EXCEPT !.ret = NoRet],
                                  savedir, quiet, dir_answer, work_name)
         ELSE Raise(w, "RuntimeError")
    ELSE ExportBody(w, savedir, quiet, dir_answer, work_name)

\* install_theme(), without the modified check
InstallTheme_NoCheck(w, work_name) ==
    LET savedir == PathJoin(SoundsDir, InstallComponent(w.theme.name))
        w1 == IF savedir \in DOMAIN w.dirs THEN w
              ELSE [w EXCEPT !.dirs = (savedir :> EmptyTree) @@ @]
        w2 == ExportTheme(w1, savedir, TRUE, None, None, work_name)
    IN  IF w2.exc # "none" THEN w2 ELSE Show(w2, "msgbox")

\* install_theme()
InstallTheme(w, work_name) ==
    IF w.theme.modified
    THEN Show(w, "msgbox")
    ELSE LET savedir == PathJoin(SoundsDir, InstallComponent(w.theme.name))
             \* savedir.mkdir(parents=True, exist_ok=True)
             w1 == IF savedir \in DOMAIN w.dirs THEN w
                   ELSE [w EXCEPT !.dirs = (savedir :> EmptyTree) @@ @]
             w2 == ExportTheme(w1, savedir, TRUE, None, None, work_name)
         IN  IF w2.exc # "none" THEN w2 ELSE Show(w2, "msgbox")

\* The for loop of json_theme without the "k in the_theme.sounds" test
RECURSIVE LoadSounds_NoKeyCheck(_, _, _)
LoadSounds_NoKeyCheck(t, items, i) ==
    IF i > Len(items) THEN [theme |-> t, exc |-> "none"]
    ELSE LET k == items[i][1]
             v == FromJson(items[i][2])
         IN  IF v # None /\ v \notin sound_files
             THEN [theme |-> t, exc |-> "FileNotFoundError"]
             ELSE LET t1 == IF v # None
                            THEN [t EXCEPT !.imported_sounds = Append(@, v)]
                            ELSE t
                  IN  LoadSounds_NoKeyCheck([t1 EXCEPT !.sounds = DictSet(@, k, v)],
                                            items, i + 1)

\* The for loop of json_theme over sounds.items(), from item i on.
RECURSIVE LoadSounds(_, _, _)
LoadSounds(t, items, i) ==
    IF i > Len(items) THEN [theme |-> t, exc |-> "none"]
    ELSE LET k == items[i][1]
             v == FromJson(items[i][2])
         IN  IF v # None /\ v \notin sound_files
             THEN [theme |-> t, exc |-> "FileNotFoundError"]
             ELSE LET t1 == IF v # None
                            THEN [t EXCEPT !.imported_sounds = Append(@, v)]
                            ELSE t
                  IN  IF k \in DOMAIN t1.sounds
                      THEN LoadSounds([t1 EXCEPT !.sounds = DictSet(@, k, v)],
                                      items, i + 1)
                      ELSE [theme |-> t1, exc |-> "ValueError"]

\* The try block of json_theme: the Theme as far as it got and the exception
\* that stopped it.
LoadTheme(t, files, filename) ==
    IF filename \notin DOMAIN files THEN [theme |-> t, exc |-> "FileNotFoundError"]
    ELSE LET data == files[filename]
         IN  IF data.top # "object" THEN [theme |-> t, exc |-> "TypeError"]
             ELSE IF data.name.t = "absent" THEN [theme |-> t, exc |-> "TypeError"]
             ELSE LET t1 == [t EXCEPT !.name = data.name.s]
                  IN  IF data.comment.t = "absent" THEN [theme |-> t1, exc |-> "TypeError"]
                      ELSE LET t2 == [t1 EXCEPT !.comment = data.comment.s]
                           IN  IF data.sounds.t # "object"
                               THEN [theme |-> t2, exc |-> "TypeError"]
                               ELSE LoadSounds(t2, data.sounds.items, 1)

\* py_kdialog.error as the editor calls it: 0 -> OK, 2 -> None; for any other
\* status the raise statement fails while it builds its exception, because
\* CalledProcessError.__init__ wants (returncode, cmd), and a TypeError
\* leaves error() instead.
ErrorDialog(w, rc) ==
    LET w1 == Show(w, "error")
    IN  IF rc = 0 \/ rc = 2 THEN w1 ELSE Raise(w1, "TypeError")

\* py_kdialog.yesnocancel
YesNoCancel(rc) == IF rc = 0 THEN YES ELSE IF rc = 1 THEN NO ELSE CANCEL

\* json_theme(), that goes on to edit_theme() after showing the failure
JsonTheme_EditAnyway(w, answer, rc) ==
    LET w0 == Show(w, "getopenfilename")
    IN  IF answer = None THEN w0
        ELSE LET ld == LoadTheme([NewTheme EXCEPT !.path = answer], w0.json_files, answer)
                 w1 == [w0 EXCEPT !.theme = ld.theme]
             IN  IF ld.exc # "none"
                 THEN ErrorDialog([w1 EXCEPT !.caught = ld.exc, !.ret = OK], rc)
                 ELSE [w1 EXCEPT !.ret = OK]

\* json_theme(); answer is the getopenfilename answer, rc the exit status of
\* the error dialog when one is shown. ret = OK: edit_theme() is entered.
JsonTheme(w, answer, rc) ==
    LET w0 == Show(w, "getopenfilename")
    IN  IF answer = None THEN w0
        ELSE LET ld == LoadTheme([NewTheme EXCEPT !.path = answer], w0.json_files, answer)
                 w1 == [w0 EXCEPT !.theme = ld.theme]
             IN  IF ld.exc # "none"
                 THEN ErrorDialog([w1 EXCEPT !.caught = ld.exc], rc)
                 ELSE [w1 EXCEPT !.ret = OK]

\* new_theme() up to the call of edit_theme()
NewThemeHandler(w, tmp_name) ==
    SetTitle([w EXCEPT !.theme = [NewTheme EXCEPT !.modified = TRUE]], tmp_name)

\* The "case _" branch of edit_theme: leave is the new value of "not editing"
EditExit(w, ans_rc, save_answer) ==
    IF w.theme.modified
    THEN LET ans == YesNoCancel(ans_rc)
             w1 == [Show(w, "yesnocancel") EXCEPT !.ans = ans]
         IN  IF ans = YES
             THEN LET w2 == SaveTheme(w1, FALSE, save_answer)
                  IN  IF w2.exc # "none" THEN w2 ELSE [w2 EXCEPT !.leave = TRUE]
             ELSE IF ans = NO THEN [w1 EXCEPT !.leave = TRUE]
             ELSE w1
    ELSE [w EXCEPT !.leave = TRUE]

\* main(): the except clauses around main_menu()
MainCatch(w, rc) ==
    IF w.exc = "none" THEN w
    ELSE ErrorDialog([w EXCEPT !.exc = "none", !.main_caught = w.exc], rc)

(***************************************************************************)
(* soundthememaker: the editor's steps                                     *)
(***************************************************************************)
NameAnswers == {None, "My Cool Theme!", ""}
CommentAnswers == {None, "A comment"}
SaveAnswers == {None, NEW_JSON, HOME}
OpenAnswers == {None, NEW_JSON} \cup DOMAIN InitialJsonFiles
DirAnswers == {None, EXPORT_DIR}
WorkNames == {"a1B2c", "Zz9yX"}        \* random.choices(letters + digits, k=5)
ExitStatuses == {0, 1, 2}              \* exit statuses of a dialog

\* The exit statuses an error dialog can end with, when one is shown.
ErrorStatuses(shown) == IF shown THEN ExitStatuses ELSE {0}

\* Install the outcome of a handler; an exception leaving it reaches main(),
\* whose error dialog ends with some exit status rc.
EdCommit(op, out, pc_ok) ==
    \E rc \in ErrorStatuses(out.exc # "none") :
        LET w == MainCatch(out, rc)
            changed == w.theme # the_theme \/ w.json_files # json_files
                          \/ w.dirs # dirs \/ w.tmp # tmp \/ w.written # written
        IN  /\ changed => steps < MaxSteps
            /\ steps' = IF changed THEN steps + 1 ELSE steps
            /\ the_theme' = w.theme
            /\ json_files' = w.json_files
            /\ dirs' = w.dirs
            /\ tmp' = w.tmp
            /\ written' = w.written
            /\ pc' = IF w.exc # "none" THEN "crashed"
                     ELSE IF out.exc # "none" THEN "main_menu"
                     ELSE pc_ok
            /\ ed_last' = [op |-> op, exc |-> out.exc, ret |-> w.ret, saved |-> w.saved,
                           saved_to |-> w.saved_to, dest |-> w.dest,
                           staged |-> w.staged, shown |-> w.shown,
                           caught |-> w.caught, main_caught |-> w.main_caught,
                           leave |-> w.leave, ans |-> w.ans]
            /\ UNCHANGED sound_files

\* main_menu(): "0" -> new_theme()
MainNew ==
    /\ pc = "main_menu"
    /\ \E tmp_name \in NameAnswers :
          EdCommit("new_theme", NewThemeHandler(World, tmp_name), "edit_theme")

\* main_menu(): "1" -> existing_theme()
MainImport ==
    /\ pc = "main_menu"
    /\ EdCommit("existing_theme", Raise(World, "NotImplementedError"), "main_menu")

\* main_menu(): "2" -> json_theme()
MainOpen ==
    /\ pc = "main_menu"
    /\ \E answer \in OpenAnswers :
       \E rc \in ErrorStatuses(answer # None
                                 /\ LoadTheme(NewTheme, json_files, answer).exc # "none") :
          LET out == JsonTheme(World, answer, rc)
          IN  EdCommit("json_theme", out,
                       IF out.ret = OK THEN "edit_theme" ELSE "main_menu")

\* main_menu(): anything else -> sys.exit(0)
MainExit ==
    /\ pc = "main_menu"
    /\ pc' = "exited"
    /\ ed_last' = [ed_last EXCEPT !.op = "exit"]
    /\ UNCHANGED <<the_theme, json_files, sound_files, dirs, tmp, written, steps>>

\* edit_theme(): "0"
EdSetTitle ==
    /\ pc = "edit_theme"
    /\ \E tmp_name \in NameAnswers :
          EdCommit("set_title", SetTitle(World, tmp_name), "edit_theme")

\* edit_theme(): "1"
EdSetComment ==
    /\ pc = "edit_theme"
    /\ \E tmp_comment \in CommentAnswers :
          EdCommit("set_comment", SetComment(World, tmp_comment), "edit_theme")

\* edit_theme(): "2" -> add_sound() shows its menu
EdAddSound ==
    /\ pc = "edit_theme"
    /\ pc' = "add_sound"
    /\ ed_last' = [ed_last EXCEPT !.op = "add_sound"]
    /\ UNCHANGED <<the_theme, json_files, sound_files, dirs, tmp, written, steps>>

\* add_sound(): a slot is chosen -> edit_sound(the_sound)
SoundEdit ==
    /\ pc = "add_sound"
    /\ \E sound \in DOMAIN the_theme.sounds,
          combo \in {None, UNSET_SOUND, IMPORT_SOUND}
                       \cup {the_theme.imported_sounds[i] :
                                i \in 1 .. Len(the_theme.imported_sounds)},
          picked \in {None} \cup sound_files :
          EdCommit("edit_sound", EditSound(World, sound, combo, picked), "add_sound")

\* add_sound(): the menu is cancelled
SoundDone ==
    /\ pc = "add_sound"
    /\ pc' = "edit_theme"
    /\ ed_last' = [ed_last EXCEPT !.op = "add_sound_done"]
    /\ UNCHANGED <<the_theme, json_files, sound_files, dirs, tmp, written, steps>>

\* edit_theme(): "3"
EdSave ==
    /\ pc = "edit_theme"
    /\ \E answer \in SaveAnswers :
          EdCommit("save_theme", SaveTheme(World, FALSE, answer), "edit_theme")

\* edit_theme(): "4"
EdInstall ==
    /\ pc = "edit_theme"
    /\ \E work_name \in WorkNames :
          EdCommit("install_theme", InstallTheme(World, work_name), "edit_theme")

\* edit_theme(): "5"
EdExport ==
    /\ pc = "edit_theme"
    /\ \E save_answer \in SaveAnswers, dir_answer \in DirAnswers,
          work_name \in WorkNames :
          EdCommit("export_theme",
                   ExportTheme(World, None, FALSE, save_answer, dir_answer, work_name),
                   "edit_theme")

\* edit_theme(): the menu is cancelled
EdExit ==
    /\ pc = "edit_theme"
    /\ \E ans_rc \in ExitStatuses, save_answer \in SaveAnswers :
          LET out == EditExit(World, ans_rc, save_answer)
          IN  EdCommit("exit_edit", out,
                       IF out.leave THEN "main_menu" ELSE "edit_theme")

\* Something outside the editor deletes a sound file.
SoundRemoved ==
    /\ pc \in {"main_menu", "edit_theme", "add_sound"}
    /\ steps < MaxSteps
    /\ steps' = steps + 1
    /\ \E p \in sound_files : sound_files' = sound_files \ {p}
    /\ UNCHANGED <<the_theme, pc, json_files, dirs, tmp, written, ed_last>>

EdInit ==
    /\ the_theme = NoTheme
    /\ pc = "main_menu"
    /\ json_files = InitialJsonFiles
    /\ sound_files = {SOUND_A, SOUND_B}
    /\ dirs = (SoundsDir :> EmptyTree) @@ (EXPORT_DIR :> EmptyTree)
    /\ tmp = EmptyTree
    /\ written = EmptyTree
    /\ ed_last = [op |-> "start", exc |-> "none", ret |-> NoRet, saved |-> "none",
                  saved_to |-> None, dest |-> None, staged |-> EmptyTree,
                  shown |-> <<>>, caught |-> "none", main_caught |-> "none",
                  leave |-> FALSE, ans |-> NoRet]
    /\ steps = 0

(***************************************************************************)
(* py_kdialog: the dialog functions                                        *)
(***************************************************************************)
CONTINUE == 4
DEFAULT_TITLE == "KDialog"             \* title = "KDialog"
TEXT == "text"                         \* the text argument of a dialog

\* What a dialog function hands back: an outcome code, a str or None.
Code(c) == [t |-> "int", v |-> c]
Text(x) == [t |-> "str", s |-> x]
Absent == [t |-> "None"]

\* str.rstrip("\n")
RECURSIVE RStripNewlines(_)
RStripNewlines(x) ==
    IF Len(x) > 0 /\ SubSeq(x, Len(x), Len(x)) = "\n"
    THEN RStripNewlines(SubSeq(x, 1, Len(x) - 1))
    ELSE x

\* list.pop(i), i counted from 0
ListPop(l, i) == SubSeq(l, 1, i) \o SubSeq(l, i + 2, Len(l))

\* do_call(*args): rc and out are the exit status and the stdout of the
\* kdialog process if it is run. subprocess.run raises TypeError, and runs
\* nothing, when an argument is None.
DoCall(ttl, args, rc, out) ==
    LET runtime_args == <<"kdialog", "--title", ttl>> \o args
        argv == IF ttl = None THEN ListPop(runtime_args, 1) ELSE runtime_args
    IN  IF \E i \in 1 .. Len(argv) : argv[i] = None
        THEN [exc |-> "TypeError", runs |-> <<>>, rc |-> 0, out |-> ""]
        ELSE [exc |-> "none", runs |-> <<argv>>, rc |-> rc, out |-> RStripNewlines(out)]

\* A dialog function raises e; p is what do_call did before (NoCall: nothing).
NoCall == [exc |-> "none", runs |-> <<>>, rc |-> 0, out |-> ""]
DlgRaise(p, e, carried) ==
    [exc |-> e, carried |-> carried, result |-> Absent, runs |-> p.runs]
DlgReturn(p, result) ==
    [exc |-> "none", carried |-> Absent, result |-> result, runs |-> p.runs]

\* The value a function returns from the outcome p of its do_call, or the
\* exception of do_call passed on.
AfterCall(p, result) ==
    IF p.exc # "none" THEN DlgRaise(p, p.exc, Absent) ELSE DlgReturn(p, result)

\* raise UnexpectedNonZeroError(*args): the class inherits
\* CalledProcessError.__init__(returncode, cmd, ...), so with fewer than two
\* arguments the construction itself raises TypeError.
RaiseUnexpectedNonZero(p, args) ==
    IF Len(args) < 2
    THEN DlgRaise(p, "TypeError", Absent)
    ELSE DlgRaise(p, "UnexpectedNonZeroError", Code(args[1]))

\* yesno(text, dtype)
YesNo(ttl, dtype, rc, out) ==
    IF dtype \notin {0, 1}
    THEN DlgRaise(NoCall, "InvalidDialogTypeError", Absent)
    ELSE LET p == DoCall(ttl, <<IF dtype = 0 THEN "--yesno" ELSE "--warningyesno",
                                 TEXT>>, rc, out)
         IN  AfterCall(p, Code(IF p.rc = 0 THEN YES ELSE NO))

\* yesnocancel(text, dtype)
YesNoCancelDialog(ttl, dtype, rc, out) ==
    IF dtype \notin {0, 1}
    THEN DlgRaise(NoCall, "InvalidDialogTypeError", Absent)
    ELSE LET p == DoCall(ttl, <<IF dtype = 0 THEN "--yesnocancel"
                                 ELSE "--warningyesnocancel", TEXT>>, rc, out)
         IN  AfterCall(p, Code(YesNoCancel(p.rc)))

\* warningcontinuecancel(text)
WarningContinueCancel(ttl, rc, out) ==
    LET p == DoCall(ttl, <<"--warningcontinuecancel", TEXT>>, rc, out)
    IN  AfterCall(p, Code(IF p.rc = 0 THEN CONTINUE ELSE CANCEL))

\* inputbox(text), that returns the response whatever the exit status
InputBox_AnyStatus(ttl, rc, out) ==
    LET p == DoCall(ttl, <<"--inputbox", TEXT>>, rc, out)
    IN  AfterCall(p, Text(p.out))

\* inputbox(text)
InputBox(ttl, rc, out) ==
    LET p == DoCall(ttl, <<"--inputbox", TEXT>>, rc, out)
    IN  AfterCall(p, IF p.rc = 0 THEN Text(p.out) ELSE Absent)

\* password(text)
Password(ttl, rc, out) ==
    LET p == DoCall(ttl, <<"--password", TEXT>>, rc, out)
    IN  AfterCall(p, IF p.rc = 0 THEN Text(p.out) ELSE Absent)

\* newpassword(text)
NewPassword(ttl, rc, out) ==
    LET p == DoCall(ttl, <<"--newpassword", TEXT>>, rc, out)
    IN  AfterCall(p, IF p.rc = 0 THEN Text(p.out) ELSE Absent)

\* combobox(text, *items)
ComboBox(ttl, items, rc, out) ==
    LET p == DoCall(ttl, <<"--combobox", TEXT>> \o items, rc, out)
    IN  AfterCall(p, IF p.rc = 0 THEN Text(p.out) ELSE Absent)

\* menu(text, *items)
Menu(ttl, items, rc, out) ==
    IF Len(items) % 2 # 0
    THEN DlgRaise(NoCall, "KDialogError", Absent)
    ELSE LET p == DoCall(ttl, <<"--menu", TEXT>> \o items, rc, out)
         IN  AfterCall(p, IF p.rc = 0 THEN Text(p.out) ELSE Absent)

\* checklist(text, *items), without the test of len(items)
CheckList_NoArity(ttl, items, rc, out) ==
    LET p == DoCall(ttl, <<"--separate-output", "--checklist", TEXT>> \o items, rc, out)
    IN  AfterCall(p, IF p.rc = 0 THEN Text(p.out) ELSE Absent)

\* checklist(text, *items)
CheckList(ttl, items, rc, out) ==
    IF Len(items) % 3 # 0
    THEN DlgRaise(NoCall, "KDialogError", Absent)
    ELSE LET p == DoCall(ttl, <<"--separate-output", "--checklist", TEXT>> \o items,
                         rc, out)
         IN  AfterCall(p, IF p.rc = 0 THEN Text(p.out) ELSE Absent)

\* radiolist(text, *items)
RadioList(ttl, items, rc, out) ==
    IF Len(items) % 3 # 0
    THEN DlgRaise(NoCall, "KDialogError", Absent)
    ELSE LET p == DoCall(ttl, <<"--separate-output", "--radiolist", TEXT>> \o items,
                         rc, out)
         IN  AfterCall(p, IF p.rc = 0 THEN Text(p.out) ELSE Absent)

\* sorry(text, details)
Sorry(ttl, detailed, rc, out) ==
    LET call_args == IF detailed THEN <<"--detailedsorry", TEXT, "details">>
                     ELSE <<"--sorry", TEXT>>
        p == DoCall(ttl, call_args, rc, out)
    IN  IF p.exc # "none" THEN DlgRaise(p, p.exc, Absent)
        ELSE IF p.rc = 0 THEN DlgReturn(p, Code(OK))
        ELSE IF p.rc = 2 THEN DlgReturn(p, Absent)
        ELSE RaiseUnexpectedNonZero(p, <<"Unexpected non-zero return code">>)

\* error(text, details)
Error(ttl, detailed, rc, out) ==
    LET call_args == IF detailed THEN <<"--detailederror", TEXT, "details">>
                     ELSE <<"--error", TEXT>>
        p == DoCall(ttl, call_args, rc, out)
    IN  IF p.exc # "none" THEN DlgRaise(p, p.exc, Absent)
        ELSE IF p.rc = 0 THEN DlgReturn(p, Code(OK))
        ELSE IF p.rc = 2 THEN DlgReturn(p, Absent)
        ELSE RaiseUnexpectedNonZero(p, <<"Unexpected non-zero return code">>)

(***************************************************************************)
(* py_kdialog: the dialog calls as steps                                   *)
(***************************************************************************)
Statuses == -1 .. MaxStatus            \* -1: the process was killed by a signal
Outputs == {"", "ab\n", "x\ny\n\n"}     \* what kdialog prints
Titles == {DEFAULT_TITLE, "Export theme", None}
DTypes == {0, 1, 2}

\* A flat item sequence of n entries
ItemAt(i) == CASE i % 3 = 1 -> "tag" [] i % 3 = 2 -> "item" [] OTHER -> "on"
Items(n) == [i \in 1 .. n |-> ItemAt(i)]

\* Record a dialog call and what came of it.
DlgCommit(kind, n, rc, out, o) ==
    /\ dlg_last' = [kind |-> kind, title |-> title, nitems |-> n, status |-> rc,
                    stdout |-> out, exc |-> o.exc, carried |-> o.carried,
                    result |-> o.result, runs |-> o.runs]
    /\ UNCHANGED title

DlgYesNo ==
    \E dtype \in DTypes, rc \in Statuses, out \in Outputs :
        DlgCommit("yesno", 0, rc, out, YesNo(title, dtype, rc, out))

DlgYesNoCancel ==
    \E dtype \in DTypes, rc \in Statuses, out \in Outputs :
        DlgCommit("yesnocancel", 0, rc, out, YesNoCancelDialog(title, dtype, rc, out))

DlgWarningContinueCancel ==
    \E rc \in Statuses, out \in Outputs :
        DlgCommit("warningcontinuecancel", 0, rc, out,
                  WarningContinueCancel(title, rc, out))

DlgInputBox ==
    \E rc \in Statuses, out \in Outputs :
        DlgCommit("inputbox", 0, rc, out, InputBox(title, rc, out))

DlgPassword ==
    \E rc \in Statuses, out \in Outputs :
        DlgCommit("password", 0, rc, out, Password(title, rc, out))

DlgNewPassword ==
    \E rc \in Statuses, out \in Outputs :
        DlgCommit("newpassword", 0, rc, out, NewPassword(title, rc, out))

DlgComboBox ==
    \E n \in 0 .. MaxItems, rc \in Statuses, out \in Outputs :
        DlgCommit("combobox", n, rc, out, ComboBox(title, Items(n), rc, out))

DlgMenu ==
    \E n \in 0 .. MaxItems, rc \in Statuses, out \in Outputs :
        DlgCommit("menu", n, rc, out, Menu(title, Items(n), rc, out))

DlgCheckList ==
    \E n \in 0 .. MaxItems, rc \in Statuses, out \in Outputs :
        DlgCommit("checklist", n, rc, out,
                  CheckList(title, Items(n), rc, out))

DlgRadioList ==
    \E n \in 0 .. MaxItems, rc \in Statuses, out \in Outputs :
        DlgCommit("radiolist", n, rc, out,
                  RadioList(title, Items(n), rc, out))

DlgSorry ==
    \E detailed \in BOOLEAN, rc \in Statuses, out \in Outputs :
        DlgCommit("sorry", 0, rc, out, Sorry(title, detailed, rc, out))

DlgError ==
    \E detailed \in BOOLEAN, rc \in Statuses, out \in Outputs :
        DlgCommit("error", 0, rc, out, Error(title, detailed, rc, out))

\* py_kdialog.title = ...
DlgSetTitle ==
    /\ \E t \in Titles \ {title} : title' = t
    /\ UNCHANGED dlg_last

DlgInit ==
    /\ title = DEFAULT_TITLE
    /\ dlg_last = [kind |-> "none", title |-> DEFAULT_TITLE, nitems |-> 0, status |-> 0,
                   stdout |-> "", exc |-> "none", carried |-> Absent,
                   result |-> Absent, runs |-> <<>>]

(***************************************************************************)
(* Specifications                                                          *)
(***************************************************************************)
\* the progress-bar session alone; the editor stays at its start
PBStart == PBInit /\ EdInit /\ DlgInit
PBNext ==
    \/ PBSet /\ UNCHANGED <<edvars, dlgvars>>
    \/ PBIncrement /\ UNCHANGED <<edvars, dlgvars>>
    \/ PBUpdate /\ UNCHANGED <<edvars, dlgvars>>
    \/ PBClose /\ UNCHANGED <<edvars, dlgvars>>
    \/ PBExit /\ UNCHANGED <<edvars, dlgvars>>
    \/ PBDismiss /\ UNCHANGED <<edvars, dlgvars>>
PBSpec == PBStart /\ [][PBNext]_vars

\* the editor alone; no progress-bar session is driven
EdStart == EdInit /\ PBInit /\ DlgInit /\ itercount = 0 /\ auto_close = FALSE
EdNext ==
    \/ MainNew /\ UNCHANGED <<pbvars, dlgvars>>
    \/ MainImport /\ UNCHANGED <<pbvars, dlgvars>>
    \/ MainOpen /\ UNCHANGED <<pbvars, dlgvars>>
    \/ MainExit /\ UNCHANGED <<pbvars, dlgvars>>
    \/ EdSetTitle /\ UNCHANGED <<pbvars, dlgvars>>
    \/ EdSetComment /\ UNCHANGED <<pbvars, dlgvars>>
    \/ EdAddSound /\ UNCHANGED <<pbvars, dlgvars>>
    \/ SoundEdit /\ UNCHANGED <<pbvars, dlgvars>>
    \/ SoundDone /\ UNCHANGED <<pbvars, dlgvars>>
    \/ EdSave /\ UNCHANGED <<pbvars, dlgvars>>
    \/ EdInstall /\ UNCHANGED <<pbvars, dlgvars>>
    \/ EdExport /\ UNCHANGED <<pbvars, dlgvars>>
    \/ EdExit /\ UNCHANGED <<pbvars, dlgvars>>
    \/ SoundRemoved /\ UNCHANGED <<pbvars, dlgvars>>
EdSpec == EdStart /\ [][EdNext]_vars

\* the dialog functions alone; the session and the editor stay at rest
DlgStart == DlgInit /\ EdInit /\ PBInit /\ itercount = 0 /\ auto_close = FALSE
DlgNext ==
    \/ DlgYesNo /\ UNCHANGED <<pbvars, edvars>>
    \/ DlgYesNoCancel /\ UNCHANGED <<pbvars, edvars>>
    \/ DlgWarningContinueCancel /\ UNCHANGED <<pbvars, edvars>>
    \/ DlgInputBox /\ UNCHANGED <<pbvars, edvars>>
    \/ DlgPassword /\ UNCHANGED <<pbvars, edvars>>
    \/ DlgNewPassword /\ UNCHANGED <<pbvars, edvars>>
    \/ DlgComboBox /\ UNCHANGED <<pbvars, edvars>>
    \/ DlgMenu /\ UNCHANGED <<pbvars, edvars>>
    \/ DlgCheckList /\ UNCHANGED <<pbvars, edvars>>
    \/ DlgRadioList /\ UNCHANGED <<pbvars, edvars>>
    \/ DlgSorry /\ UNCHANGED <<pbvars, edvars>>
    \/ DlgError /\ UNCHANGED <<pbvars, edvars>>
    \/ DlgSetTitle /\ UNCHANGED <<pbvars, edvars>>
DlgSpec == DlgStart /\ [][DlgNext]_vars

(***************************************************************************)
(* Progress session: properties                                            *)
(***************************************************************************)
IsRangeFailure(r) == r.exc = "ValueError" /\ r.msg = RANGE_MSG
IsUsageFailure(r) == r.exc = "ValueError" /\ r.msg = CLOSED_MSG
IsCancellation(r) == r.exc = "CancelledError"
InRange(v) == 0 <= v /\ v <= itercount

\* C1: on a session that is not closed, set(value) signals a range failure
\* exactly when value is outside 0..itercount, and then no control-bus call
\* is made; a value inside the range is stored and pushed.
C1_SetAcceptedIffInRange ==
    (pb_last.op = "set" /\ ~pb_last.was_closed) =>
        /\ IsRangeFailure(pb_last.r) <=> ~InRange(pb_last.arg)
        /\ ~InRange(pb_last.arg) => pb_last.calls = <<>> /\ progress = pb_last.before
        /\ InRange(pb_last.arg) =>
              /\ progress = pb_last.arg
              /\ Len(pb_last.calls) >= 1
              /\ pb_last.calls[1] = SetCall(pb_last.arg)
              /\ ~IsUsageFailure(pb_last.r)

C1_Witness ==
    /\ pb_last.op = "set" /\ ~pb_last.was_closed
    /\ pb_last.arg = itercount + 1
    /\ IsRangeFailure(pb_last.r)
    /\ bus # <<>>

\* C2 as stated: on a closed session every set and every advance signals a
\* usage failure and makes no control-bus call.
C2_Original ==
    (pb_last.was_closed /\ pb_last.op \in {"set", "increment"}) =>
        IsUsageFailure(pb_last.r) /\ pb_last.calls = <<>>

\* C2 amended: on a closed session every advance and every set of a value
\* inside 0..itercount signals a usage failure, a set of a value outside the
\* range signals the range failure; none is a cancellation and none makes a
\* control-bus call.
C2_ClosedRejects ==
    (pb_last.was_closed /\ pb_last.op \in {"set", "increment"}) =>
        /\ pb_last.calls = <<>>
        /\ ~IsCancellation(pb_last.r)
        /\ closed
        /\ IF pb_last.op = "set" /\ ~InRange(pb_last.arg)
           THEN IsRangeFailure(pb_last.r)
           ELSE IsUsageFailure(pb_last.r)

C2_Witness ==
    /\ pb_last.was_closed /\ pb_last.op = "increment"
    /\ IsUsageFailure(pb_last.r)
    /\ \E i \in 1 .. Len(bus) : bus[i].cmd = "close"
    /\ \E i \in 1 .. Len(bus) : bus[i].cmd = "Set"

\* C3: no control-bus call is issued by an operation that starts on a
\* closed session, so at most one close instruction is ever sent.
C3_ClosingIdempotent ==
    /\ pb_last.was_closed => pb_last.calls = <<>>
    /\ Cardinality({i \in 1 .. Len(bus) : bus[i].cmd = "close"}) <= 1

\* C4: the progress value stays within 0..itercount.
C4_ProgressInRange == 0 <= progress /\ progress <= itercount

\* The step is a call that pushed a value to the control bus.
Pushed == Len(bus') > Len(bus) /\ bus'[Len(bus) + 1].cmd = "Set"

\* C20: a set or increment whose push fails closes the session and raises
\* CancelledError, which is neither the usage nor the range failure; a
\* cancellation is raised only by a call whose push failed, and a dismissal
\* by itself changes nothing the caller can observe.
C20_CancelledAtPush ==
    [][/\ (Pushed /\ ~alive /\ pb_last'.op \in {"set", "increment"})
          => /\ closed'
             /\ IsCancellation(pb_last'.r)
             /\ ~IsUsageFailure(pb_last'.r) /\ ~IsRangeFailure(pb_last'.r)
             /\ pb_last'.calls = <<SetCall(progress'), CloseCall>>
       /\ (Pushed /\ alive) => ~IsCancellation(pb_last'.r)
       /\ (IsCancellation(pb_last'.r) /\ pb_last' # pb_last)
          => Pushed /\ ~alive /\ ~closed
       /\ bus' = bus
          => /\ closed' = closed
             /\ IsCancellation(pb_last'.r) => pb_last' = pb_last
       /\ (alive /\ ~alive' /\ bus' = bus)
          => progress' = progress /\ pb_last' = pb_last]_vars

C20_Witness ==
    /\ pb_last.op = "increment"
    /\ IsCancellation(pb_last.r)
    /\ ~pb_last.was_closed
    /\ closed
    /\ pb_last.calls = <<SetCall(pb_last.before + 1), CloseCall>>

\* The step is a call of increment() (and not a dismissal after one).
IncStep == pb_last'.op = "increment" /\ ~(alive /\ ~alive' /\ bus' = bus)

\* C21: increment() does what progress = progress + 1 does: the same
\* outcome for the caller (the range failure at progress = itercount
\* included), the same value pushed, the same progress afterwards and,
\* except where it auto-closes, the same closed flag.
C21_IncrementIsSetPlusOne ==
    [][IncStep
          => LET e == DoSet(Session, progress + 1)
             IN  /\ pb_last'.r = e.r
                 /\ (Len(bus') > Len(bus)) <=> (Len(e.s.bus) > Len(bus))
                 /\ Len(bus') > Len(bus)
                    => bus'[Len(bus) + 1] = e.s.bus[Len(bus) + 1]
                 /\ progress' = e.s.progress
                 /\ \/ closed' = e.s.closed
                    \/ auto_close /\ progress' >= itercount /\ closed']_vars

\* C22: an increment whose push succeeded and that reaches itercount closes
\* an auto-closing session, after the value was pushed; it never closes a
\* session that is not auto-closing; and below itercount it closes neither.
C22_AutoClose ==
    [][(IncStep /\ ~closed /\ pb_last'.r = Returned)
          => /\ Pushed
             /\ (auto_close /\ progress' = itercount)
                => /\ closed'
                   /\ pb_last'.calls = <<SetCall(itercount), CloseCall>>
             /\ ~auto_close => ~closed' /\ pb_last'.calls = <<SetCall(progress')>>
             /\ progress' < itercount
                => ~closed' /\ pb_last'.calls = <<SetCall(progress')>>]_vars

C22_Witness ==
    /\ pb_last.op = "increment"
    /\ pb_last.r = Returned
    /\ auto_close
    /\ itercount = MaxIter
    /\ progress = itercount
    /\ closed
    /\ pb_last.calls = <<SetCall(itercount), CloseCall>>

(***************************************************************************)
(* Dialog functions: properties                                            *)
(***************************************************************************)
\* The kdialog process of the last call was run and ended with a status.
Ran == dlg_last.runs # <<>>
Captured == Text(RStripNewlines(dlg_last.stdout))

\* C16: whenever the kdialog process of a yesno, yesnocancel,
\* warningcontinuecancel, inputbox, password, newpassword, menu or combobox
\* call has ended with a status, the call returns, and what it returns is
\* fixed by the status: yesno 0 -> YES, else NO; yesnocancel 0 -> YES,
\* 1 -> NO, else CANCEL; warningcontinuecancel 0 -> CONTINUE, else CANCEL;
\* the prompts 0 -> the captured text, else None.
C16_StatusMapping ==
    Ran =>
        LET rc == dlg_last.status
        IN  /\ dlg_last.kind = "yesno"
               => /\ dlg_last.exc = "none"
                  /\ dlg_last.result = Code(IF rc = 0 THEN YES ELSE NO)
            /\ dlg_last.kind = "yesnocancel"
               => /\ dlg_last.exc = "none"
                  /\ dlg_last.result = Code(IF rc = 0 THEN YES
                                            ELSE IF rc = 1 THEN NO ELSE CANCEL)
            /\ dlg_last.kind = "warningcontinuecancel"
               => /\ dlg_last.exc = "none"
                  /\ dlg_last.result = Code(IF rc = 0 THEN CONTINUE ELSE CANCEL)
            /\ dlg_last.kind \in {"inputbox", "password", "newpassword",
                                  "menu", "combobox"}
               => /\ dlg_last.exc = "none"
                  /\ dlg_last.result = IF rc = 0 THEN Captured ELSE Absent

C16_Witness ==
    /\ Ran
    /\ dlg_last.kind = "inputbox"
    /\ dlg_last.status = 3
    /\ dlg_last.stdout = "ab\n"
    /\ dlg_last.result = Absent

\* C17: when the kdialog process of a sorry or error call has ended, status
\* 0 gives OK, status 2 gives None and any other status raises
\* UnexpectedNonZeroError carrying that status.
C17_UnexpectedStatus ==
    (Ran /\ dlg_last.kind \in {"sorry", "error"}) =>
        LET rc == dlg_last.status
        IN  IF rc = 0 THEN dlg_last.exc = "none" /\ dlg_last.result = Code(OK)
            ELSE IF rc = 2 THEN dlg_last.exc = "none" /\ dlg_last.result = Absent
            ELSE /\ dlg_last.exc = "UnexpectedNonZeroError"
                 /\ dlg_last.carried = Code(rc)

\* C18: a checklist or radiolist call whose item sequence has a length that
\* is not a multiple of three raises KDialogError and runs no process.
C18_ListArity ==
    (dlg_last.kind \in {"checklist", "radiolist"} /\ dlg_last.nitems % 3 # 0)
        => /\ dlg_last.exc = "KDialogError"
           /\ dlg_last.runs = <<>>

C18_Witness ==
    /\ dlg_last.kind = "checklist"
    /\ dlg_last.nitems = 4
    /\ dlg_last.title = DEFAULT_TITLE
    /\ dlg_last.exc = "KDialogError"
    /\ dlg_last.runs = <<>>

\* The last call got as far as do_call.
Called == dlg_last.kind # "none"
              /\ dlg_last.exc \notin {"InvalidDialogTypeError", "KDialogError"}

\* C24: a call that reaches do_call runs one process; with the title None
\* its argument list is kdialog followed by the arguments of the call, with
\* neither --title nor a title value; with a title, kdialog --title <title>
\* comes before the arguments of the call.
C24_TitlePair ==
    Called =>
        /\ Len(dlg_last.runs) = 1
        /\ LET argv == dlg_last.runs[1]
           IN  IF dlg_last.title = None
               THEN /\ argv[1] = "kdialog"
                    /\ \A i \in 1 .. Len(argv) : argv[i] \notin {"--title", None}
                    /\ dlg_last.kind = "inputbox"
                          => argv = <<"kdialog", "--inputbox", TEXT>>
               ELSE /\ SubSeq(argv, 1, 3) = <<"kdialog", "--title", dlg_last.title>>
                    /\ dlg_last.kind = "inputbox"
                          => SubSeq(argv, 4, Len(argv)) = <<"--inputbox", TEXT>>

\* C25: a menu or combobox call whose item sequence has an odd length raises
\* KDialogError and runs no process.
C25_PairArity ==
    (dlg_last.kind \in {"menu", "combobox"} /\ dlg_last.nitems % 2 # 0)
        => /\ dlg_last.exc = "KDialogError"
           /\ dlg_last.runs = <<>>

(***************************************************************************)
(* Theme editor: properties                                                *)
(***************************************************************************)
HasTheme == the_theme # NoTheme

\* C5: opening a file that save_theme wrote, while the sound files the saved
\* Theme was bound to exist, succeeds and yields the saved name, comment and
\* sound mapping.
C5_SaveOpenRoundTrip ==
    (/\ ed_last.op = "json_theme"
     /\ HasTheme
     /\ (ed_last.ret = OK \/ ed_last.caught # "none")
     /\ the_theme.path \in DOMAIN written
     /\ \A k \in Catalog : written[the_theme.path].sounds[k] \in sound_files \cup {None})
    =>
        /\ ed_last.ret = OK
        /\ pc = "edit_theme"
        /\ the_theme.name = written[the_theme.path].name
        /\ the_theme.comment = written[the_theme.path].comment
        /\ the_theme.sounds = written[the_theme.path].sounds

C5_Witness ==
    /\ ed_last.op = "json_theme" /\ ed_last.ret = OK
    /\ HasTheme
    /\ the_theme.path \in DOMAIN written
    /\ the_theme.name = "My Cool Theme!"
    /\ the_theme.sounds["bell"] = SOUND_A
    /\ the_theme.sounds["message"] = None

C7_FailedOpenLeavesNoTheme ==
    (ed_last.op = "json_theme" /\ ed_last.caught = "ValueError") =>
        /\ pc # "edit_theme"
        /\ (~HasTheme \/ the_theme.path # UNKNOWN_KEY_JSON)

\* C8: an install attempted while modified is true creates no directory,
\* stages nothing, copies nothing and leaves the Theme as it was.
C8_InstallRefusedWhenModified ==
    [][(pc = "edit_theme" /\ the_theme.modified /\ ed_last'.op = "install_theme")
          => /\ dirs' = dirs
             /\ tmp' = tmp
             /\ json_files' = json_files
             /\ the_theme' = the_theme
             /\ ed_last'.staged = EmptyTree
             /\ ed_last'.dest = None
             /\ pc' = "edit_theme"]_vars

C8_Witness ==
    /\ ed_last.op = "install_theme"
    /\ the_theme.modified
    /\ ed_last.shown = <<"msgbox">>
    /\ the_theme.sounds["bell"] # None

\* The directory name each theme name of the model is to install under:
\* the name lower-cased with every non-alphanumeric character removed.
ExpectedComponent(name) ==
    CASE name = "My Cool Theme!" -> "mycooltheme"
      [] name = DEFAULT_NAME -> "soundtheme"
      [] name = "Test" -> "test"
      [] name = "" -> ""
      [] OTHER -> "?"

InstallDone == ed_last.op = "install_theme" /\ ed_last.dest # None

\* C9: an install goes to the directory directly under the sound-themes
\* location whose name is the theme name lower-cased and stripped of its
\* non-alphanumeric characters.
C9_InstallDestination ==
    InstallDone =>
        /\ BaseName(ed_last.dest) = ExpectedComponent(the_theme.name)
        /\ ed_last.dest = SoundsDir \o "/" \o BaseName(ed_last.dest)
        /\ ed_last.dest # SoundsDir

\* The extension each sound file of the model is to keep.
ExpectedExt(p) ==
    CASE p = SOUND_A -> ".wav"
      [] p = SOUND_B -> ".ogg"
      [] OTHER -> "?"

StereoName(k) == "stereo/" \o k \o ExpectedExt(the_theme.sounds[k])

ExportDone == ed_last.op = "export_theme" /\ ed_last.dest # None /\ ed_last.ret = OK

\* C10: after a successful export to D, D holds index.theme with the
\* theme's name and comment, Directories=stereo and Example=theme-demo, and
\* stereo/<event-id><extension> with the source's bytes for every bound
\* slot; the staging tree held index.theme and one file per bound slot only.
C10_ExportContents ==
    ExportDone =>
        LET D == ed_last.dest
            bound == {k \in Catalog : the_theme.sounds[k] # None}
        IN  /\ D \in DOMAIN dirs
            /\ "index.theme" \in DOMAIN dirs[D]
            /\ dirs[D]["index.theme"].Name = the_theme.name
            /\ dirs[D]["index.theme"].Comment = the_theme.comment
            /\ dirs[D]["index.theme"].Directories = "stereo"
            /\ dirs[D]["index.theme"].Example = "theme-demo"
            /\ \A k \in bound :
                  /\ StereoName(k) \in DOMAIN dirs[D]
                  /\ dirs[D][StereoName(k)] = [kind |-> "sound",
                                               data |-> SoundData(the_theme.sounds[k])]
            /\ DOMAIN ed_last.staged = {"index.theme"} \cup {StereoName(k) : k \in bound}
            /\ ~the_theme.modified
            /\ ed_last.staged \notin {tmp[n] : n \in DOMAIN tmp}

C10_Witness ==
    /\ ExportDone
    /\ ed_last.dest = EXPORT_DIR
    /\ the_theme.name = "Test"
    /\ the_theme.sounds["bell"] = SOUND_A
    /\ the_theme.sounds["message"] = SOUND_B
    /\ "stereo/bell.wav" \in DOMAIN dirs[EXPORT_DIR]
    /\ "stereo/message.ogg" \in DOMAIN dirs[EXPORT_DIR]

\* The step is the editor operation op (and not a stale record of one).
EdTook(op) == ed_last'.op = op /\ sound_files' = sound_files

\* C11: an interactive export of a modified Theme attempts the save first;
\* unless that save succeeds nothing is staged and no directory or file
\* changes, and whenever staging or a destination changes the Theme is no
\* longer modified; a quiet export of the same Theme fails with nothing
\* staged and nothing written.
C11_ExportOnlyWhenSaved ==
    [][(pc = "edit_theme" /\ the_theme.modified /\ EdTook("export_theme"))
          => /\ ed_last'.saved # "none"
             /\ ed_last'.shown[1] = "msgbox"
             /\ ed_last'.saved # "ok"
                => /\ dirs' = dirs /\ tmp' = tmp /\ json_files' = json_files
                   /\ ed_last'.staged = EmptyTree /\ ed_last'.dest = None
             /\ ed_last'.saved = "cancelled"
                => the_theme' = the_theme /\ pc' = "edit_theme"
             /\ (dirs' # dirs \/ tmp' # tmp \/ ed_last'.staged # EmptyTree)
                => ~the_theme'.modified
             /\ \A n \in WorkNames :
                   LET q == ExportTheme(World, EXPORT_DIR, TRUE, None, None, n)
                   IN  /\ q.exc = "RuntimeError"
                       /\ q.dirs = dirs /\ q.tmp = tmp /\ q.json_files = json_files
                       /\ q.staged = EmptyTree /\ q.shown = <<>>]_vars

C11_Witness ==
    /\ ed_last.op = "export_theme"
    /\ ed_last.saved = "ok"
    /\ ed_last.shown[1] = "msgbox"
    /\ ed_last.dest = EXPORT_DIR
    /\ "index.theme" \in DOMAIN ed_last.staged
    /\ ~the_theme.modified

\* C12: leaving the edit loop: with modified true the confirmation is asked;
\* confirmed saves the Theme and leaves, declined leaves without saving,
\* cancelled stays in the loop with the Theme as it was; with modified false
\* the loop is left with no confirmation.
C12_ExitPath ==
    [][(pc = "edit_theme" /\ EdTook("exit_edit"))
          => IF the_theme.modified
             THEN /\ ed_last'.shown[1] = "yesnocancel"
                  /\ ed_last'.ans = YES
                     => /\ ed_last'.saved = "ok" /\ ~the_theme'.modified
                        /\ ed_last'.leave /\ pc' = "main_menu"
                  /\ ed_last'.ans = NO
                     => /\ ed_last'.saved = "none" /\ json_files' = json_files
                        /\ ed_last'.leave /\ pc' = "main_menu"
                  /\ ed_last'.ans = CANCEL
                     => /\ the_theme' = the_theme /\ json_files' = json_files
                        /\ ~ed_last'.leave /\ pc' = "edit_theme"
             ELSE /\ ed_last'.shown = <<>>
                  /\ ed_last'.leave /\ pc' = "main_menu"]_vars

\* C13: the editor ends only by the exit choice of the main menu: a failure
\* that reaches main() is shown and the main menu comes back, whatever the
\* exit status of the error dialog.
C13_EndsOnlyByExit ==
    /\ pc # "crashed"
    /\ (pc = "exited") => ed_last.op = "exit"
    /\ (ed_last.main_caught # "none" /\ ed_last.op # "exit") => pc = "main_menu"

\* The fields of a Theme other than path and modified.
ThemeFields(t) == <<t.name, t.comment, t.sounds, t.imported_sounds>>

\* C14: an operation on the current Theme (not the load of another one)
\* that changes its name, comment, a sound slot or the imported-paths list
\* leaves modified true, whether it completes or fails.
C14_MutationSetsModified ==
    [][(HasTheme /\ HasTheme' /\ ed_last'.op # "json_theme"
           /\ ThemeFields(the_theme') # ThemeFields(the_theme))
          => the_theme'.modified]_vars

\* C15: the keys of the current Theme's sound mapping are the catalog.
C15_SoundKeysFixed ==
    HasTheme => DOMAIN the_theme.sounds = Catalog

C15_Witness ==
    /\ ed_last.op = "json_theme" /\ ed_last.caught = "ValueError"
    /\ HasTheme /\ the_theme.path = UNKNOWN_KEY_JSON
    /\ DOMAIN the_theme.sounds = Catalog

\* C19: save asks for a destination exactly when no path is bound (or the
\* dialog is forced); when that prompt is cancelled the status is CANCEL,
\* the Theme is as it was and no file is written.
C19_SavePromptAndCancel ==
    [][(pc = "edit_theme" /\ EdTook("save_theme"))
          => /\ (ed_last'.shown # <<>> /\ ed_last'.shown[1] = "getsavefilename")
                <=> (the_theme.path = None)
             /\ ed_last'.saved = "cancelled"
                => /\ ed_last'.ret = CANCEL
                   /\ ed_last'.shown = <<"getsavefilename">>
                   /\ the_theme' = the_theme
                   /\ json_files' = json_files /\ written' = written
                   /\ pc' = "edit_theme"
             /\ LET f == SaveTheme(World, TRUE, None)
                IN  /\ f.shown = <<"getsavefilename">>
                    /\ f.ret = CANCEL /\ f.saved = "cancelled"
                    /\ f.theme = the_theme
                    /\ f.json_files = json_files /\ f.written = written]_vars

C19_Witness ==
    /\ ed_last.op = "save_theme" /\ ed_last.saved = "cancelled"
    /\ ed_last.ret = CANCEL
    /\ the_theme.modified /\ the_theme.path = None
    /\ the_theme.sounds["bell"] # None

\* The dialog d was shown by the last handler.
Shown(r, d) == \E i \in 1 .. Len(r.shown) : r.shown[i] = d

\* The documents of the initial file system that fail validation, one for
\* each way of failing.
BadDocs == {NOT_OBJECT_JSON, NO_NAME_JSON, NO_COMMENT_JSON, NO_SOUNDS_JSON,
            MISSING_SOUND_JSON, UNKNOWN_KEY_JSON}

\* C23: an open of a document that fails validation is caught, shown in an
\* error dialog and does not enter the edit loop; the edit loop is entered
\* from an open only when nothing failed, with the name and comment of the
\* document and with every sound of the document in the mapping, and
\* otherwise only with the fresh Theme of new_theme.
C23_FailedOpenAborts ==
    [][/\ (pc = "main_menu" /\ pc' = "edit_theme")
          => \/ EdTook("json_theme")
             \/ /\ EdTook("new_theme")
                /\ the_theme'.path = None
                /\ the_theme'.sounds = [k \in Catalog |-> None]
                /\ the_theme'.imported_sounds = <<>>
       /\ (pc = "main_menu" /\ EdTook("json_theme"))
          => /\ \A f \in BadDocs :
                   ((ed_last'.ret = OK \/ Len(ed_last'.shown) > 1)
                       /\ the_theme'.path = f
                       /\ json_files[f] = InitialJsonFiles[f])
                   => /\ ed_last'.caught # "none"
                      /\ Shown(ed_last', "error")
                      /\ pc' \in {"main_menu", "crashed"}
             /\ ed_last'.caught # "none"
                => Shown(ed_last', "error") /\ pc' \in {"main_menu", "crashed"}
             /\ pc' = "edit_theme"
                => /\ ed_last'.caught = "none"
                   /\ ~Shown(ed_last', "error")
                   /\ LET doc == json_files[the_theme'.path]
                      IN  /\ doc.top = "object"
                          /\ the_theme'.name = doc.name.s
                          /\ the_theme'.comment = doc.comment.s
                          /\ doc.sounds.t = "object"
                          /\ \A i \in 1 .. Len(doc.sounds.items) :
                                LET it == doc.sounds.items[i]
                                IN  /\ it[1] \in Catalog
                                    /\ the_theme'.sounds[it[1]] = FromJson(it[2])]_vars

C23_Witness ==
    /\ ed_last.op = "json_theme"
    /\ ed_last.caught = "TypeError"
    /\ Shown(ed_last, "error")
    /\ HasTheme /\ the_theme.path = NO_COMMENT_JSON /\ the_theme.name = "Half"
    /\ pc = "main_menu"

InEditLoop == pc \in {"edit_theme", "add_sound"}

\* C26: whenever the edit loop is left with modified true, by its exit path
\* or by an exception leaving an edit action, the save-changes confirmation
\* was answered NO.
C26_NoSilentDrop ==
    [][(InEditLoop /\ pc' \in {"main_menu", "crashed"} /\ the_theme'.modified)
          => /\ Shown(ed_last', "yesnocancel")
             /\ ed_last'.ans = NO]_vars

\* C27: in the sound-slot menu, an import whose open-file dialog is
\* cancelled raises nothing and leaves the Theme as it was, whatever the slot.
C27_CancelledImport ==
    (pc = "add_sound") =>
        \A sound \in DOMAIN the_theme.sounds :
            LET o == EditSound(World, sound, IMPORT_SOUND, None)
            IN  /\ o.exc = "none"
                /\ o.theme.sounds = the_theme.sounds
                /\ o.theme.imported_sounds = the_theme.imported_sounds
                /\ o.theme.modified = the_theme.modified

\* The sound mapping a document holds: its items, None for the other slots.
DocSounds(doc) ==
    [k \in Catalog |->
        IF \E i \in 1 .. Len(doc.sounds.items) : doc.sounds.items[i][1] = k
        THEN FromJson((CHOOSE it \in {doc.sounds.items[i] :
                                        i \in 1 .. Len(doc.sounds.items)} :
                          it[1] = k)[2])
        ELSE None]

\* C28: in the edit loop with modified false the Theme has a path, the
\* document at that path is an object and its name, comment and sounds are
\* the Theme's; where save_theme wrote that path, what it dumped is the
\* Theme's name, comment and sound mapping.
C28_CleanMeansOnDisk ==
    (InEditLoop /\ ~the_theme.modified) =>
        /\ the_theme.path # None
        /\ the_theme.path \in DOMAIN json_files
        /\ LET doc == json_files[the_theme.path]
           IN  /\ doc.top = "object"
               /\ doc.name = JStr(the_theme.name)
               /\ doc.comment = JStr(the_theme.comment)
               /\ doc.sounds.t = "object"
               /\ DocSounds(doc) = the_theme.sounds
        /\ the_theme.path \in DOMAIN written
              => written[the_theme.path] = Snapshot(the_theme)

C28_Witness ==
    /\ pc = "edit_theme"
    /\ ~the_theme.modified
    /\ the_theme.path = NEW_JSON
    /\ NEW_JSON \in DOMAIN written
    /\ the_theme.name = "My Cool Theme!"
    /\ the_theme.sounds["bell"] # None

====
